---- MODULE Spec2Model ----
(***************************************************************************)
(* CensusFrame (information.py): a pandas DataFrame of neighbourhood rows  *)
(* with bin counts, a total column and a group column, and the operations  *)
(* that compute entropy / KL divergence / mutual information and merge     *)
(* their results into two tracked tables, nhood_df and city_df.           *)
(*                                                                         *)
(* Conventions of the model                                                *)
(*  - a column name is the sequence of its tokens, "_" being a token of    *)
(*    its own: 'ACSHINC1_CITY' is <<"ACSHINC1", "_", "CITY">>, so that     *)
(*    string concatenation is \o;                                          *)
(*  - a table is [index, columns, data] with data[j][i] the cell of column *)
(*    j in row i; column names may repeat, as in pandas;                   *)
(*  - a cell is [op, args]: a rational "num" <<n, d>>, "nan", "inf", a     *)
(*    group label "str", or the symbolic result of a statistic over the    *)
(*    integer inputs it was computed from;                                 *)
(*  - an intermediate value that is read more than once is an operator     *)
(*    parameter rather than a LET definition, so that it is evaluated      *)
(*    once.                                                                *)
(***************************************************************************)
EXTENDS Integers, Sequences, FiniteSets, TLC

\* ------------------------------------------------------------------ bounds
MaxCalls == 2
MaxVarList == 4

\* --------------------------------------------------------- program constants
LOG_BASE == 2
CITY_ROW_LIMIT == 10000

\* ------------------------------------------------------------ small helpers
Range(s) == {s[i] : i \in 1..Len(s)}

Pos(s, x) == CHOOSE i \in 1..Len(s) : s[i] = x

RECURSIVE SumSeq(_)
SumSeq(s) == IF s = <<>> THEN 0 ELSE Head(s) + SumSeq(Tail(s))

RECURSIVE Flatten(_)
Flatten(ss) == IF ss = <<>> THEN <<>> ELSE Head(ss) \o Flatten(Tail(ss))

Least(S) == CHOOSE x \in S : \A y \in S : x <= y

RECURSIVE SortInts(_)
SortIntsFrom(m, S) == <<m>> \o SortInts(S \ {m})
SortInts(S) == IF S = {} THEN <<>> ELSE SortIntsFrom(Least(S), S)

HasDuplicates(s) == \E i, j \in 1..Len(s) : i < j /\ s[i] = s[j]

RECURSIVE Gcd(_, _)
Gcd(a, b) == IF b = 0 THEN a ELSE Gcd(b, a % b)

\* a sequence, and a sequence of sequences, with every element evaluated
List(s) == s \o <<>>
List2(d) == [j \in 1..Len(d) |-> d[j] \o <<>>] \o <<>>

\* ------------------------------------------------------------------ cells
NaN == [op |-> "nan", args |-> <<>>]
Inf == [op |-> "inf", args |-> <<>>]
Str(g) == [op |-> "str", args |-> <<g>>]

Reduced(n, d, g) == [op |-> "num", args |-> <<n \div g, d \div g>>]

\* the float n/d of two non-negative integers, as numpy divides: x/0 is inf,
\* 0/0 is nan
Ratio(n, d) ==
  IF d = 0 THEN (IF n = 0 THEN NaN ELSE Inf) ELSE Reduced(n, d, Gcd(n, d))

Num(n) == [op |-> "num", args |-> <<n, 1>>]

IsMissing(v) == v = NaN

\* a cell as a pair <<n, d>>: inf is <<1, 0>> and nan is <<0, 0>>
AsPair(v) ==
  IF v.op = "num" THEN v.args ELSE IF v.op = "inf" THEN <<1, 0>> ELSE <<0, 0>>

DivPairs(p, q) == Ratio(p[1] * q[2], p[2] * q[1])

\* Series / Series on non-negative floats (IEEE: inf/inf and 0/0 are nan,
\* x/inf is 0, x/nan is nan)
Div(a, b) == DivPairs(AsPair(a), AsPair(b))

\* .replace([np.inf, -np.inf], np.nan)
ReplaceInf(v) == IF v = Inf THEN NaN ELSE v

NonZero(pk) == {i \in 1..Len(pk) : pk[i] # 0}

\* scipy.stats.entropy(pk, base=LOG_BASE): pk is normalised by its sum, so an
\* all-zero pk gives nan; one outcome gives 0, LOG_BASE equal outcomes give 1
stats_entropy(pk) ==
  IF SumSeq(pk) = 0 THEN NaN
  ELSE IF Cardinality(NonZero(pk)) = 1 THEN Num(0)
  ELSE IF /\ Cardinality(NonZero(pk)) = LOG_BASE
          /\ \A i, j \in NonZero(pk) : pk[i] = pk[j]
       THEN Num(1)
  ELSE [op |-> "H", args |-> pk]

\* scipy.stats.entropy(pk, qk, base=LOG_BASE): both normalised by their sums;
\* a term with pk > 0 and qk = 0 is inf; pk proportional to qk gives 0
stats_rel_entropy(pk, qk) ==
  IF SumSeq(pk) = 0 \/ SumSeq(qk) = 0 THEN NaN
  ELSE IF \E i \in 1..Len(pk) : pk[i] > 0 /\ qk[i] = 0 THEN Inf
  ELSE IF \A i \in 1..Len(pk) : pk[i] * SumSeq(qk) = qk[i] * SumSeq(pk) THEN Num(0)
  ELSE [op |-> "DKL", args |-> pk \o qk]

\* ----------------------------------------------------------- column names
\* every token of every column name, in the order Python compares strings
TokenOrder ==
  << "ACSHINC1", "ACSHINC2", "ACSTOTHH", "CITY", "DKL(n|y)", "DKL(y|n)",
     "H(n)", "H(n|y)", "H(y)", "H(y|n)", "MI", "MSA", "NAME", "W", "_",
     "p(n)", "var", "variance", "weighted" >>

Rank(t) == Pos(TokenOrder, t)

NameLess(a, b) ==
  \E k \in 1..(Len(a) + 1) :
     /\ \A i \in 1..(k - 1) : i <= Len(b) /\ a[i] = b[i]
     /\ k <= Len(b)
     /\ (k > Len(a) \/ Rank(a[k]) < Rank(b[k]))

FirstName(S) == CHOOSE x \in S : \A y \in S \ {x} : NameLess(x, y)

RECURSIVE SortNames(_)
SortNamesFrom(m, S) == <<m>> \o SortNames(S \ {m})
SortNames(S) == IF S = {} THEN <<>> ELSE SortNamesFrom(FirstName(S), S)

BinTokens == {"ACSHINC1", "ACSHINC2"}
BinClass == "^ACSHINC([0-9])+"

\* the constructor's defaults
bin_regex == <<BinClass, "$">>
tot_col == <<"ACSTOTHH">>
group_col == <<"CITY", "_", "NAME">>

TokMatch(p, t) == IF p = BinClass THEN t \in BinTokens ELSE p = t

\* the regular expression core at some offset of name, anchored as said
CoreMatches(core, atStart, atEnd, name) ==
  \E off \in 0..Len(name) :
     /\ atStart => off = 0
     /\ off + Len(core) <= Len(name)
     /\ atEnd => off + Len(core) = Len(name)
     /\ \A k \in 1..Len(core) : TokMatch(core[k], name[off + k])

\* re.search(alt, name) for the regular expressions the class builds: a
\* leading bin class anchors at the start, a trailing "$" at the end
AltMatches(alt, name) ==
  IF alt # <<>> /\ alt[Len(alt)] = "$"
  THEN CoreMatches(SubSeq(alt, 1, Len(alt) - 1), alt[1] = BinClass, TRUE, name)
  ELSE CoreMatches(alt, alt # <<>> /\ alt[1] = BinClass, FALSE, name)

FirstBar(regex) ==
  CHOOSE k \in 1..Len(regex) : regex[k] = "|" /\ \A m \in 1..(k - 1) : regex[m] # "|"

\* the alternatives "|" separates
RECURSIVE Alternatives(_)
SplitAt(regex, i) ==
  {SubSeq(regex, 1, i - 1)} \cup Alternatives(SubSeq(regex, i + 1, Len(regex)))
Alternatives(regex) ==
  IF \E i \in 1..Len(regex) : regex[i] = "|"
  THEN SplitAt(regex, FirstBar(regex))
  ELSE {regex}

Matches(regex, name) == \E alt \in Alternatives(regex) : AltMatches(alt, name)

\* ------------------------------------------------------------------ tables
DataFrame(index, columns, data) ==
  [index |-> List(index), columns |-> List(columns), data |-> List2(data)]

NoFrame == [index |-> <<>>, columns |-> <<>>, data |-> <<>>]

len(df) == Len(df.index)

\* the positions of the columns called name, left to right
ColumnsNamed(df, name) ==
  SelectSeq([j \in 1..Len(df.columns) |-> j], LAMBDA j : df.columns[j] = name)

\* the columns at positions js
TakeColumns(df, js) ==
  DataFrame(df.index,
            [k \in 1..Len(js) |-> df.columns[js[k]]],
            [k \in 1..Len(js) |-> df.data[js[k]]])

\* the rows at positions is
TakeRows(df, is) ==
  DataFrame([k \in 1..Len(is) |-> df.index[is[k]]],
            df.columns,
            [j \in 1..Len(df.columns) |-> [k \in 1..Len(is) |-> df.data[j][is[k]]]])

\* df[names]: per name every column of that name
Select(df, names) ==
  TakeColumns(df, Flatten([k \in 1..Len(names) |-> ColumnsNamed(df, names[k])]))

\* df.filter(regex=regex): the matching columns, in the table's order
filter(df, regex) ==
  TakeColumns(df, SelectSeq([j \in 1..Len(df.columns) |-> j],
                            LAMBDA j : Matches(regex, df.columns[j])))

\* one column as a Series: its cells in index order (the first of that name)
Column(df, name) == df.data[Pos(df.columns, name)]

Cell(df, key, j) == df.data[j][Pos(df.index, key)]

\* df.values: rows of cells
Values(df) ==
  List2([i \in 1..len(df) |-> [j \in 1..Len(df.columns) |-> df.data[j][i]]])

\* df.reindex(index): rows the table lacks are nan
Reindex(df, index) ==
  DataFrame(index, df.columns,
            [j \in 1..Len(df.columns) |->
               [i \in 1..Len(index) |->
                  IF index[i] \in Range(df.index)
                  THEN Cell(df, index[i], j) ELSE NaN]])

\* the row keys of an outer join: the common index as it is when both are
\* equal, else the union (unit keys sort before group keys)
join_index(left, right) ==
  IF left.index = right.index THEN left.index
  ELSE left.index \o SelectSeq(right.index, LAMBDA k : k \notin Range(left.index))

concat(a, b) == DataFrame(a.index, a.columns \o b.columns, a.data \o b.data)

join_on_index(left, right, index) == concat(Reindex(left, index), Reindex(right, index))

\* left.join(right, how='outer') on the index, no column in common
join_outer(left, right) == join_on_index(left, right, join_index(left, right))

\* left.columns.difference(right.columns): sorted, without repeats
difference(left, right) == SortNames(Range(left) \ Range(right))

\* --------------------------------------------------- the constructor's input
\* One frame per case the operations distinguish: the data handed to
\* CensusFrame(**kwargs) and the group_name it is configured with.  A row is a
\* unit: its group, its bin counts, its total column.
Row(g, y, tot) == [g |-> g, y |-> y, tot |-> tot]

Frames ==
  { \* three units in two groups
    [group_name |-> "CITY",
     rows |-> << Row(1, <<10, 0>>, 10), Row(1, <<0, 10>>, 10), Row(2, <<5, 5>>, 10) >>],
    \* as many groups as units
    [group_name |-> "CITY",
     rows |-> << Row(1, <<10, 0>>, 10), Row(2, <<4, 6>>, 10) >>],
    \* an empty unit, and a unit whose total column is 0 beside non-empty bins
    [group_name |-> "CITY",
     rows |-> << Row(1, <<0, 0>>, 0), Row(1, <<4, 6>>, 10), Row(2, <<3, 0>>, 0),
                 Row(2, <<1, 2>>, 3) >>],
    \* a group display name other than the default, and an empty unit
    [group_name |-> "MSA",
     rows |-> << Row(1, <<10, 0>>, 10), Row(1, <<0, 0>>, 0), Row(2, <<5, 5>>, 10) >>] }

UnitKey(i) == <<"n", i>>
GroupKey(g) == <<"c", g>>

BinNames == << <<"ACSHINC1">>, <<"ACSHINC2">> >>

frame_of(rows, n) ==
  DataFrame([i \in 1..n |-> UnitKey(i)],
            BinNames \o <<tot_col, group_col>>,
            [j \in 1..Len(BinNames) |-> [i \in 1..n |-> Num(rows[i].y[j])]]
              \o << [i \in 1..n |-> Num(rows[i].tot)],
                    [i \in 1..n |-> Str(rows[i].g)] >>)

\* the DataFrame the instance is: bins, total column, group column
frame(s) == frame_of(s.rows, Len(s.rows))

IntOf(v) == v.args[1]

\* row i of a table of counts, as integers
IntRow(df, i) == List([j \in 1..Len(df.columns) |-> IntOf(df.data[j][i])])

\* a column of counts, as integers
Ints(col) == List([i \in 1..Len(col) |-> IntOf(col[i])])

\* ------------------------------------------------------------------ groupby
\* the group labels of the column the frame is grouped on, in sorted order
labels(on) == SortInts({IntOf(on[i]) : i \in 1..Len(on)})

\* the positions of the rows of one group
rows_of(on, g) == SelectSeq([i \in 1..Len(on) |-> i], LAMBDA i : IntOf(on[i]) = g)

groups(df, on, keys) ==
  [keys |-> keys,
   frames |-> List([k \in 1..Len(keys) |-> TakeRows(df, rows_of(on, keys[k]))])]

groupby_on(df, on) == groups(df, on, labels(on))

\* df.groupby(group_col): the sorted labels and the sub-frame of each
groupby(df) == groupby_on(df, Column(df, group_col))

\* self._grouped(): the grouping of the instance's own frame
grouped(s) == groupby(frame(s))

agg_sum(xs) == Num(SumSeq(xs))

agg_mean(xs) == Ratio(SumSeq(xs), Len(xs))

SumSquares(xs) == SumSeq([i \in 1..Len(xs) |-> xs[i] * xs[i]])

\* the sample variance (ddof = 1): nan for a single row
agg_var(xs) ==
  IF Len(xs) < 2 THEN NaN
  ELSE Ratio(Len(xs) * SumSquares(xs) - SumSeq(xs) * SumSeq(xs),
             Len(xs) * (Len(xs) - 1))

\* .sum(), .mean(), .var() of one column of one group
agg(how, xs) ==
  CASE how = "sum" -> agg_sum(xs)
    [] how = "mean" -> agg_mean(xs)
    [] how = "var" -> agg_var(xs)

\* grouped[var_list].sum() / .mean() / .var(): one row per group, one column
\* per entry of var_list
grouped_agg(grp, var_list, how) ==
  DataFrame([k \in 1..Len(grp.keys) |-> GroupKey(grp.keys[k])],
            var_list,
            [j \in 1..Len(var_list) |->
               [k \in 1..Len(grp.keys) |->
                  agg(how, Ints(Column(grp.frames[k], var_list[j])))]])

\* self._grouped().sum(): every numeric column summed per group
grouped_sum(grp) == grouped_agg(grp, BinNames \o <<tot_col>>, "sum")

\* weighted_mean(val, wt)(group): (val * (wt / wt.mean())).mean()
weighted_mean(vals, wts) ==
  Ratio(SumSeq([i \in 1..Len(vals) |-> vals[i] * wts[i]]), SumSeq(wts))

\* weighted_variance(val, wt, log=True)(group): the variance of the logarithms
weighted_variance(vals, wts) ==
  IF Len(vals) < 2 \/ SumSeq(wts) = 0 THEN NaN
  ELSE [op |-> "weighted_var", args |-> vals \o wts]

\* the names of the joined columns: one the frame already has takes rsuffix
suffixed(columns, others, rsuffix) ==
  [j \in 1..Len(others) |->
     IF others[j] \in Range(columns) THEN others[j] \o rsuffix ELSE others[j]]

\* df.join(df_grouped, on=join_on, rsuffix=rsuffix): per row of df the row of
\* df_grouped its group column names
join(df, df_grouped, on, rsuffix) ==
  DataFrame(df.index,
            df.columns \o suffixed(df.columns, df_grouped.columns, rsuffix),
            df.data \o
            [j \in 1..Len(df_grouped.columns) |->
               [i \in 1..len(df) |-> Cell(df_grouped, GroupKey(IntOf(on[i])), j)]])

join_frame(df, df_grouped, rsuffix) ==
  join(df, df_grouped, Column(df, group_col), rsuffix)

\* _join_group_sums(regex=regex): the frame with the group sums of the columns
\* matching regex joined on the group column, under the suffix '_' + group_name
join_group_sums(s, regex) ==
  join_frame(frame(s), filter(grouped_sum(grouped(s)), regex), <<"_", s.group_name>>)

\* ------------------------------------------------------- the calculations
\* what each decorated method computes and returns, before the decorator runs

entropy_rows(df, name) ==
  DataFrame(df.index, <<name>>,
            << [i \in 1..len(df) |-> stats_entropy(IntRow(df, i))] >>)

\* entropy_y(conditional=True): per unit, the entropy of its bins
H_y_n(s) == entropy_rows(filter(frame(s), bin_regex), <<"H(y|n)">>)

\* entropy_y(conditional=False): per group, the entropy of its summed bins
H_y(s) == entropy_rows(filter(grouped_sum(grouped(s)), bin_regex), <<"H(y)">>)

rel_entropy_rows(df, df_city) ==
  DataFrame(df.index, << <<"DKL(y|n)">> >>,
            << [i \in 1..len(df) |->
                  stats_rel_entropy(IntRow(df, i), IntRow(df_city, i))] >>)

\* dkl_y: per unit, its bins against the joined sums of its group, found under
\* bin_regex[:-1] + '_' + group_name
DKL_y(s, summed) ==
  rel_entropy_rows(filter(frame(s), bin_regex),
                   filter(summed, SubSeq(bin_regex, 1, Len(bin_regex) - 1)
                                    \o <<"_", s.group_name>>))

quotient(index, a, b) ==
  DataFrame(index, << <<"p(n)">> >>, << [i \in 1..Len(index) |-> Div(a[i], b[i])] >>)

\* p_n: the unit's total over the joined total of its group
P_n(s, df) ==
  quotient(df.index, Column(df, tot_col), Column(df, tot_col \o <<"_", s.group_name>>))

with_weights(df, nhood_total, city_total, cols) ==
  DataFrame(df.index,
            df.columns \o [k \in 1..Len(cols) |-> cols[k] \o <<"_", "W">>],
            df.data \o
            [k \in 1..Len(cols) |->
               [i \in 1..len(df) |->
                  Div(Div(Column(df, cols[k])[i], nhood_total[i]),
                      Div(Column(df, cols[k] \o <<"_", "CITY">>)[i], city_total[i]))]])

\* nhood_weights, lines 234-237: the joined table with a '_W' column per bin,
\* (bin / unit total) / (group's bin / group's total), looked up under '_CITY'
weighted_df(df) ==
  with_weights(df, Column(df, tot_col), Column(df, tot_col \o <<"_", "CITY">>),
               filter(df, bin_regex).columns)

replace_inf(w) ==
  DataFrame(w.index, w.columns,
            [j \in 1..Len(w.columns) |-> [i \in 1..len(w) |-> ReplaceInf(w.data[j][i])]])

\* nhood_weights, line 238: the '_W' columns, infinities replaced by nan
df_w(df) == replace_inf(filter(df, <<"_", "W", "$">>))

Reverse(q) == [i \in 1..Len(q) |-> q[Len(q) + 1 - i]]

reversed(grp) == [keys |-> Reverse(grp.keys), frames |-> Reverse(grp.frames)]

\* the loops visiting the groups in the opposite order
grouped_iter_reversed(s) == reversed(grouped(s))

\* the groups in the order the loops of entropy_n and dkl_n visit them
grouped_iter(s) == grouped(s)

rel_entropy_cols(group_filtered, p_n) ==
  List([j \in 1..Len(group_filtered.columns) |->
          stats_rel_entropy(Ints(group_filtered.data[j]), p_n)])

\* _dkl_n_group: for one group, per bin, the units' counts in the bin against
\* the units' totals (entropy normalises both, so p_n enters by its totals)
dkl_n_group(group) ==
  rel_entropy_cols(filter(group, bin_regex), Ints(Column(group, tot_col)))

\* DataFrame(df_city_dkl): one row per group, named 'DKL(n|y)_' + bin
DKL_rows(keys, cols, rows) ==
  DataFrame([k \in 1..Len(keys) |-> GroupKey(keys[k])],
            [j \in 1..Len(cols) |-> <<"DKL(n|y)", "_">> \o cols[j]],
            [j \in 1..Len(cols) |-> [k \in 1..Len(keys) |-> rows[k][j]]])

DKL_n_of(grp, cols) ==
  DKL_rows(grp.keys, cols, List([k \in 1..Len(grp.keys) |-> dkl_n_group(grp.frames[k])]))

\* dkl_n, lines 364-377, and entropy_n with calc_dkl
compute_DKL_n(s) == DKL_n_of(grouped_iter(s), filter(frame(s), bin_regex).columns)

H_n_y(group_filtered) ==
  List([j \in 1..Len(group_filtered.columns) |->
          stats_entropy(Ints(group_filtered.data[j]))])

\* entropy_n, lines 311-325, for one group: H(n|y) per bin, then H(n)
H_n_group(group) ==
  H_n_y(filter(group, bin_regex)) \o <<stats_entropy(Ints(Column(group, tot_col)))>>

H_rows(keys, names, rows) ==
  DataFrame([k \in 1..Len(keys) |-> GroupKey(keys[k])], names,
            [j \in 1..Len(names) |-> [k \in 1..Len(keys) |-> rows[k][j]]])

H_n_of(grp, cols) ==
  H_rows(grp.keys,
         [j \in 1..Len(cols) |-> <<"H(n|y)", "_">> \o cols[j]] \o << <<"H(n)">> >>,
         List([k \in 1..Len(grp.keys) |-> H_n_group(grp.frames[k])]))

\* entropy_n: self.H_n
compute_H_n(s) == H_n_of(grouped_iter(s), filter(frame(s), bin_regex).columns)

\* the product of two floats
Mul(a, b) ==
  IF a = NaN \/ b = NaN THEN NaN
  ELSE IF a.op = "num" /\ b.op = "num"
       THEN Ratio(a.args[1] * b.args[1], a.args[2] * b.args[2])
  ELSE IF a = Inf \/ b = Inf
       THEN (IF a = Num(0) \/ b = Num(0) THEN NaN ELSE Inf)
  ELSE IF a = Num(0) \/ b = Num(0) THEN Num(0)
  ELSE [op |-> "mul", args |-> a.args \o b.args]

SumOf(kept) ==
  IF \E i \in 1..Len(kept) : kept[i] = Inf THEN Inf
  ELSE [op |-> "sum",
        args |-> Flatten([i \in 1..Len(kept) |-> <<Len(kept[i].args)>> \o kept[i].args])]

\* .sum(axis=1) of one row: missing terms are skipped; the sum of what is
\* left, kept as its list of terms
RowSum(terms) == SumOf(SelectSeq(terms, LAMBDA t : t # NaN))

\* self._filter(df=grouped_sum).div(grouped_sum[tot_col], axis='index').values
N_l(bins, tot) ==
  List2([i \in 1..len(bins) |->
           [j \in 1..Len(bins.columns) |-> Div(bins.data[j][i], tot[i])]])

\* DataFrame(N_l * DKL, index=index).sum(axis=1), as the column 'MI'
MI_rows(N, DKL, index) ==
  DataFrame(index, << <<"MI">> >>,
            << [i \in 1..Len(index) |->
                  RowSum(List([j \in 1..Len(N[i]) |-> Mul(N[i][j], DKL[i][j])]))] >>)

MI_of(sums, DKL, index) ==
  MI_rows(N_l(filter(sums, bin_regex), Column(sums, tot_col)), DKL, index)

\* mutual_info, lines 391-397: the weights N_l and the DKL table as arrays,
\* multiplied cell by cell, summed along each row, labelled by DKL_n's index
compute_MI(s, DKL, DKL_n_index) == MI_of(grouped_sum(grouped(s)), DKL, DKL_n_index)

\* ------------------------------------------------------------ the decorator
\* _append_to_df.wrapper, lines 105-119: which tracked table a result of
\* n_new rows goes to
route(n_new, n_nhood, has_city, n_city) ==
  IF n_new = n_nhood THEN "nhood_df"
  ELSE IF ~has_city /\ n_new < CITY_ROW_LIMIT THEN "setattr"
  ELSE IF ~has_city THEN "AttributeError"
  ELSE IF n_new = n_city THEN "city_df"
  ELSE "nhood_df"

\* the target joined with the columns of the result it lacks
append_absent(df, new_df) ==
  join_outer(df, Select(new_df, difference(new_df.columns, df.columns)))

\* lines 121-129: the target without the columns the result names, joined
\* with the result
append(df, new_df) ==
  join_outer(Select(df, difference(df.columns, new_df.columns)), new_df)

wrapper_to(to, t, new_df) ==
  CASE to = "setattr" ->
         [nhood_df |-> t.nhood_df, city_df |-> new_df, has_city |-> TRUE,
          exc |-> "", df |-> new_df, to |-> to, new_df |-> new_df]
    [] to = "AttributeError" ->
         [nhood_df |-> t.nhood_df, city_df |-> t.city_df, has_city |-> t.has_city,
          exc |-> "AttributeError", df |-> NoFrame, to |-> to, new_df |-> new_df]
    [] to = "nhood_df" ->
         [nhood_df |-> append(t.nhood_df, new_df), city_df |-> t.city_df,
          has_city |-> t.has_city, exc |-> "", df |-> new_df, to |-> to,
          new_df |-> new_df]
    [] to = "city_df" ->
         [nhood_df |-> t.nhood_df, city_df |-> append(t.city_df, new_df),
          has_city |-> t.has_city, exc |-> "", df |-> new_df, to |-> to,
          new_df |-> new_df]

\* the decorator on the tracked tables t = [nhood_df, city_df, has_city]
wrapper(t, new_df) ==
  wrapper_to(route(len(new_df), len(t.nhood_df), t.has_city, len(t.city_df)), t, new_df)

\* -------------------------------------------------------------------- state
VARIABLES
  self,        \* the constructor's input: [group_name, rows]
  nhood_df,    \* self.nhood_df
  city_df,     \* self.city_df, NoFrame until it is set
  attrs,       \* the names of the attributes set on the instance (hasattr)
  DKL_n,       \* self.DKL_n
  df_summed,   \* self.df_summed
  var_list,    \* per aggregation method, its default argument var_list=[]
  call,        \* the last call: method and arguments
  ret,         \* what the last call returned, or the exception it raised
  events,      \* what the last call computed anew
  merges,      \* the runs of the decorator in the last call
  ncalls,      \* how many calls were made
  shape        \* the decorator on row counts alone (SpecShape)

vars == <<self, nhood_df, city_df, attrs, DKL_n, df_summed, var_list, call, ret,
          events, merges, ncalls, shape>>

Aggregations ==
  {"calculate_group_sums", "calculate_group_means", "calculate_group_variance"}

None == <<>>

TheCall(op, flag, given, vl, regex) ==
  [op |-> op, flag |-> flag, given |-> given, var_list |-> vl, var_regex |-> regex]

Plain(op) == TheCall(op, TRUE, FALSE, <<>>, None)

Returned(df) == [exc |-> "", df |-> df]
Raise(exc) == [exc |-> exc, df |-> NoFrame]

NoShape == [nhood_df |-> 0, city_df |-> 0, has_city |-> FALSE, new_df |-> 0, out |-> ""]

tracked == [nhood_df |-> nhood_df, city_df |-> city_df, has_city |-> "city_df" \in attrs]

\* one run of the decorator: the tables it found (t), the result it was
\* handed, the branch it took and the tables it left (w)
merge(t, w) ==
  [to |-> w.to, new_df |-> w.new_df,
   before |-> [nhood_df |-> t.nhood_df, city_df |-> t.city_df],
   after |-> [nhood_df |-> w.nhood_df, city_df |-> w.city_df]]

\* _grouped(), lines 80-83: the grouping is computed once and kept
grouped_events == IF "grouped" \in attrs THEN <<>> ELSE <<"groupby">>

\* CensusFrame(...), lines 52-64
Init ==
  /\ self \in Frames
  /\ nhood_df = frame(self)
  /\ city_df = NoFrame
  /\ attrs = {}
  /\ DKL_n = NoFrame
  /\ df_summed = NoFrame
  /\ var_list = [m \in Aggregations |-> <<>>]
  /\ call = Plain("__init__")
  /\ ret = Returned(NoFrame)
  /\ events = <<>>
  /\ merges = <<>>
  /\ ncalls = 0
  /\ shape = NoShape

\* the decorator has run from the tables t and given w; earlier are the runs
\* of the decorator inside the body
Merged(t, w, c, set, ev, earlier) ==
  /\ nhood_df' = w.nhood_df
  /\ city_df' = w.city_df
  /\ attrs' = attrs \cup set \cup (IF w.has_city THEN {"city_df"} ELSE {})
  /\ ret' = [exc |-> w.exc, df |-> w.df]
  /\ call' = c
  /\ events' = ev
  /\ merges' = Append(earlier, merge(t, w))
  /\ ncalls' = ncalls + 1
  /\ UNCHANGED <<self, shape>>

\* the end of a decorated call whose body returned new_df: the decorator
\* merges it
Decorate(c, new_df, set, ev) ==
  Merged(tracked, wrapper(tracked, new_df), c, set, ev, <<>>)

\* the end of a call that raised exc after the runs of the decorator in earlier
RaisedAfter(c, exc, set, ev, earlier) ==
  /\ attrs' = attrs \cup set
  /\ ret' = Raise(exc)
  /\ call' = c
  /\ events' = ev
  /\ merges' = earlier
  /\ ncalls' = ncalls + 1
  /\ UNCHANGED <<self, nhood_df, city_df, shape>>

\* the end of a call whose body raised exc: the decorator does not run
Raised(c, exc, set, ev) == RaisedAfter(c, exc, set, ev, <<>>)

\* a second instance over the same data: the defaults of the methods stay
construct ==
  /\ ncalls < MaxCalls
  /\ nhood_df' = frame(self)
  /\ city_df' = NoFrame
  /\ attrs' = {}
  /\ DKL_n' = NoFrame
  /\ df_summed' = NoFrame
  /\ call' = Plain("__init__")
  /\ ret' = Returned(NoFrame)
  /\ events' = <<>>
  /\ merges' = <<>>
  /\ ncalls' = ncalls + 1
  /\ UNCHANGED <<self, var_list, shape>>

entropy_y ==
  /\ ncalls < MaxCalls
  /\ \E conditional \in BOOLEAN :
       IF conditional
       THEN Decorate(TheCall("entropy_y", conditional, FALSE, <<>>, None),
                     H_y_n(self), {"H_y_n"}, <<>>)
       ELSE Decorate(TheCall("entropy_y", conditional, FALSE, <<>>, None),
                     H_y(self), {"grouped", "H_y"}, grouped_events)
  /\ UNCHANGED <<DKL_n, df_summed, var_list>>

\* the stored join returned when there is one
join_group_sums_cached(regex) ==
  IF "df_summed" \in attrs
  THEN [df |-> df_summed, events |-> <<>>]
  ELSE [df |-> join_group_sums(self, regex), events |-> grouped_events \o <<"join">>]

\* _join_group_sums(regex=regex), lines 93-95: the join is computed and stored
\* on every call; of the work only the grouping is reused
join_group_sums_call(regex) ==
  [df |-> join_group_sums(self, regex), events |-> grouped_events \o <<"join">>]

dkl_y_body(j) ==
  /\ df_summed' = j.df
  /\ Decorate(Plain("dkl_y"), DKL_y(self, j.df), {"grouped", "df_summed", "DKL_y"},
              j.events)

dkl_y ==
  /\ ncalls < MaxCalls
  /\ dkl_y_body(join_group_sums_call(bin_regex))
  /\ UNCHANGED <<DKL_n, var_list>>

p_n_body(j) ==
  /\ df_summed' = j.df
  /\ Decorate(Plain("p_n"), P_n(self, j.df), {"grouped", "df_summed", "p_n"}, j.events)

\* self.p_n = ... (line 220) puts a DataFrame where the method was: the next
\* self.p_n() calls that DataFrame
p_n ==
  /\ ncalls < MaxCalls
  /\ IF "p_n" \in attrs
     THEN /\ Raised(Plain("p_n"), "TypeError", {}, <<>>)
          /\ UNCHANGED df_summed
     ELSE p_n_body(join_group_sums_call(tot_col))
  /\ UNCHANGED <<DKL_n, var_list>>

nhood_weights_end(df, ev) ==
  /\ df_summed' = df
  /\ Decorate(Plain("nhood_weights"), df_w(df), {"grouped", "df_summed", "df_w"}, ev)

\* line 235 raises when the joined total is not named '..._CITY'; the join is
\* stored by then
nhood_weights_body(j) ==
  IF tot_col \o <<"_", "CITY">> \notin Range(j.df.columns)
  THEN /\ df_summed' = j.df
       /\ Raised(Plain("nhood_weights"), "KeyError", {"grouped", "df_summed"}, j.events)
  ELSE nhood_weights_end(weighted_df(j.df), j.events)

nhood_weights ==
  /\ ncalls < MaxCalls
  /\ nhood_weights_body(join_group_sums_call(tot_col \o <<"|">> \o bin_regex))
  /\ UNCHANGED <<DKL_n, var_list>>

entropy_n_both(c, H_n, DKL) ==
  /\ DKL_n' = DKL
  /\ Decorate(c, concat(H_n, DKL), {"grouped", "H_n", "DKL_n"},
              grouped_events \o <<"DKL_n">>)

entropy_n ==
  /\ ncalls < MaxCalls
  /\ \E calc_dkl \in BOOLEAN :
       IF calc_dkl
       THEN entropy_n_both(TheCall("entropy_n", calc_dkl, FALSE, <<>>, None),
                           compute_H_n(self), compute_DKL_n(self))
       ELSE /\ UNCHANGED DKL_n
            /\ Decorate(TheCall("entropy_n", calc_dkl, FALSE, <<>>, None),
                        compute_H_n(self), {"grouped", "H_n"}, grouped_events)
  /\ UNCHANGED <<df_summed, var_list>>

\* the table computed and stored whether or not there is one
dkl_n_recomputed ==
  [df |-> compute_DKL_n(self), set |-> {"grouped", "DKL_n"}, events |-> <<"DKL_n">>]

\* the body of dkl_n, lines 361-377: the stored table when there is one, else
\* the table computed and stored
dkl_n_call ==
  IF "DKL_n" \in attrs
  THEN [df |-> DKL_n, set |-> {}, events |-> <<>>]
  ELSE [df |-> compute_DKL_n(self), set |-> {"grouped", "DKL_n"},
        events |-> <<"DKL_n">>]

dkl_n_body(d) ==
  /\ DKL_n' = d.df
  /\ Decorate(Plain("dkl_n"), d.df, d.set,
              (IF d.events = <<>> THEN <<>> ELSE grouped_events) \o d.events)

dkl_n ==
  /\ ncalls < MaxCalls
  /\ dkl_n_body(dkl_n_call)
  /\ UNCHANGED <<df_summed, var_list>>

\* line 396 on, after the decorated self.dkl_n() gave w
mutual_info_end(d, w, ev) ==
  IF w.exc # ""
  THEN RaisedAfter(Plain("mutual_info"), w.exc, {"grouped"} \cup d.set, ev,
                   <<merge(tracked, w)>>)
  ELSE Merged([nhood_df |-> w.nhood_df, city_df |-> w.city_df, has_city |-> w.has_city],
              wrapper([nhood_df |-> w.nhood_df, city_df |-> w.city_df,
                       has_city |-> w.has_city],
                      compute_MI(self, Values(w.df), d.df.index)),
              Plain("mutual_info"),
              {"grouped", "MI"} \cup d.set
                \cup (IF w.has_city THEN {"city_df"} ELSE {}),
              ev, <<merge(tracked, w)>>)

mutual_info_body(d) ==
  /\ DKL_n' = d.df
  /\ mutual_info_end(d, wrapper(tracked, d.df), grouped_events \o d.events)

\* mutual_info: self._grouped().sum(), then the decorated self.dkl_n(), then
\* its own result through the decorator
mutual_info ==
  /\ ncalls < MaxCalls
  /\ mutual_info_body(dkl_n_call)
  /\ UNCHANGED <<df_summed, var_list>>

\* ------------------------------------------------------------ aggregations
DedupAdd(init, x) == IF x \in Range(init) THEN init ELSE Append(init, x)

\* a list without its repeats, first occurrences kept
RECURSIVE Dedup(_)
Dedup(l) ==
  IF l = <<>> THEN <<>> ELSE DedupAdd(Dedup(SubSeq(l, 1, Len(l) - 1)), l[Len(l)])

\* the function self._grouped().apply() is handed, on one group
stat(how, vals, wts) ==
  CASE how = "weighted_mean" -> weighted_mean(vals, wts)
    [] how = "weighted_var" -> weighted_variance(vals, wts)

\* self._grouped().apply(...) for every var of vars_: one column per name,
\* the function applied per group to that column and the total column
grouped_apply(grp, vars_, suffix, how) ==
  DataFrame([k \in 1..Len(grp.keys) |-> GroupKey(grp.keys[k])],
            [j \in 1..Len(vars_) |-> vars_[j] \o suffix],
            [j \in 1..Len(vars_) |->
               [k \in 1..Len(grp.keys) |->
                  stat(how, Ints(Column(grp.frames[k], vars_[j])),
                       Ints(Column(grp.frames[k], tot_col)))]])

\* calculate_group_sums, line 165
sums_df(grp, l, weighted) == grouped_agg(grp, l, "sum")

\* calculate_group_means, lines 177-184
means_df(grp, l, weighted) ==
  IF weighted
  THEN concat(grouped_agg(grp, l, "mean"),
              grouped_apply(grp, Dedup(l), <<"_", "weighted">>, "weighted_mean"))
  ELSE grouped_agg(grp, l, "mean")

\* df_grouped.rename(columns={var: var + '_variance' ...})
rename(v, l) ==
  DataFrame(v.index, [j \in 1..Len(l) |-> l[j] \o <<"_", "variance">>], v.data)

\* calculate_group_variance, lines 196-205
variance_df(grp, l, weighted) ==
  IF weighted
  THEN concat(rename(grouped_agg(grp, l, "var"), l),
              grouped_apply(grp, Dedup(l), <<"_", "weighted", "_", "var">>,
                            "weighted_var"))
  ELSE rename(grouped_agg(grp, l, "var"), l)

\* what the body of aggregation m returns
result_df(m, grp, l, weighted) ==
  CASE m = "calculate_group_sums" -> sums_df(grp, l, weighted)
    [] m = "calculate_group_means" -> means_df(grp, l, weighted)
    [] m = "calculate_group_variance" -> variance_df(grp, l, weighted)

\* the list the body works on: the caller's, or the method's default object
var_list_in(m, given, vl) == IF given THEN vl ELSE var_list[m]

\* var_list.extend(self._filter(regex=var_regex).columns.values)
extend(l, var_regex) ==
  IF var_regex # None THEN l \o filter(frame(self), var_regex).columns ELSE l

\* line 165 on, with the list extended in place.  A list naming a column
\* twice is refused (KeyError) by the pandas the package requires and
\* selected twice by later ones.
aggregate_list(c, m, given, l1, weighted) ==
  /\ Len(l1) <= MaxVarList
  /\ var_list' = IF given THEN var_list ELSE [var_list EXCEPT ![m] = l1]
  /\ \E refuses \in BOOLEAN :
       IF refuses /\ HasDuplicates(l1)
       THEN Raised(c, "KeyError", {"grouped"}, grouped_events)
       ELSE Decorate(c, result_df(m, grouped(self), l1, weighted), {"grouped"},
                     grouped_events)

\* lines 161-164: the guard, then the extension of the list
aggregate_guard(c, m, given, l0, weighted, var_regex) ==
  IF Len(l0) = 0 /\ var_regex = None
  THEN /\ Raised(c, "Exception", {}, <<>>)
       /\ UNCHANGED var_list
  ELSE aggregate_list(c, m, given, extend(l0, var_regex), weighted)

\* the body shared by the three aggregations
aggregate(m, weighted, given, vl, var_regex) ==
  aggregate_guard(TheCall(m, weighted, given, vl, var_regex), m, given,
                  var_list_in(m, given, vl), weighted, var_regex)

calculate_group_sums ==
  /\ ncalls < MaxCalls
  /\ \E given \in BOOLEAN, var_regex \in {None, bin_regex} :
       aggregate("calculate_group_sums", TRUE, given,
                 IF given THEN <<tot_col>> ELSE <<>>, var_regex)
  /\ UNCHANGED <<DKL_n, df_summed>>

calculate_group_means ==
  /\ ncalls < MaxCalls
  /\ \E weighted \in BOOLEAN, given \in BOOLEAN, var_regex \in {None, bin_regex} :
       aggregate("calculate_group_means", weighted, given,
                 IF given THEN <<tot_col>> ELSE <<>>, var_regex)
  /\ UNCHANGED <<DKL_n, df_summed>>

calculate_group_variance ==
  /\ ncalls < MaxCalls
  /\ \E weighted \in BOOLEAN, given \in BOOLEAN, var_regex \in {None, bin_regex} :
       aggregate("calculate_group_variance", weighted, given,
                 IF given THEN <<tot_col>> ELSE <<>>, var_regex)
  /\ UNCHANGED <<DKL_n, df_summed>>

Next ==
  \/ construct
  \/ entropy_y
  \/ dkl_y
  \/ p_n
  \/ nhood_weights
  \/ entropy_n
  \/ dkl_n
  \/ mutual_info
  \/ calculate_group_sums
  \/ calculate_group_means
  \/ calculate_group_variance

Spec == Init /\ [][Next]_vars

\* ------------------------------------------- the decorator on row counts
\* The decorator reads of its tables only their row counts.  SpecShape runs
\* it on tables given by their row counts, those at the limit of line 110
\* among them.
Sizes ==
  {1, 2, 3, CITY_ROW_LIMIT - 1, CITY_ROW_LIMIT, CITY_ROW_LIMIT + 1, 2 * CITY_ROW_LIMIT}

InitShape ==
  /\ self = CHOOSE f \in Frames : f.group_name = "MSA"
  /\ nhood_df = frame(self)
  /\ city_df = NoFrame
  /\ attrs = {}
  /\ DKL_n = NoFrame
  /\ df_summed = NoFrame
  /\ var_list = [m \in Aggregations |-> <<>>]
  /\ call = Plain("__init__")
  /\ ret = Returned(NoFrame)
  /\ events = <<>>
  /\ merges = <<>>
  /\ ncalls = 0
  /\ \E n \in Sizes :
       shape = [nhood_df |-> n, city_df |-> 0, has_city |-> FALSE, new_df |-> 0,
                out |-> "__init__"]

\* the row counts the branch to leaves, the target having joined rows
shape_to(to, n, joined) ==
  CASE to = "setattr" ->
         [shape EXCEPT !.city_df = n, !.has_city = TRUE, !.new_df = n, !.out = to]
    [] to = "AttributeError" ->
         [shape EXCEPT !.new_df = n, !.out = to]
    [] to = "nhood_df" ->
         [shape EXCEPT !.nhood_df = joined, !.new_df = n, !.out = to]
    [] to = "city_df" ->
         [shape EXCEPT !.city_df = joined, !.new_df = n, !.out = to]

\* an outer join has the rows of the larger table when the keys of the other
\* are among them, and the rows of both when the keys are disjoint
shape_join(to, n, old) ==
  \E joined \in {IF old < n THEN n ELSE old, old + n} : shape' = shape_to(to, n, joined)

shape_route(to, n) ==
  shape_join(to, n, IF to = "city_df" THEN shape.city_df ELSE shape.nhood_df)

\* a decorated call whose body returned n rows
decorate_shape ==
  /\ ncalls < MaxCalls
  /\ \E n \in Sizes :
       shape_route(route(n, shape.nhood_df, shape.has_city, shape.city_df), n)
  /\ ncalls' = ncalls + 1
  /\ UNCHANGED <<self, nhood_df, city_df, attrs, DKL_n, df_summed, var_list, call,
                 ret, events, merges>>

NextShape == decorate_shape

SpecShape == InitShape /\ [][NextShape]_vars

\* ================================================================== claims
Decorated ==
  {"entropy_y", "dkl_y", "entropy_n", "dkl_n", "mutual_info", "p_n", "nhood_weights"}
    \cup Aggregations

\* the unit table the instance was built from, and the row keys of its groups
Units == frame(self)
GroupLabels == labels(Column(Units, group_col))
GroupIndex == [k \in 1..Len(GroupLabels) |-> GroupKey(GroupLabels[k])]

\* the columns called name, on the rows keyed by index
ColumnsOn(df, name, index) == Reindex(Select(df, <<name>>), index).data

Count(q, x) == Cardinality({i \in 1..Len(q) : q[i] = x})

\* ---------------------------------------------------------------------- C1
C1_Pair ==
  /\ ncalls = 2
  /\ call = TheCall("entropy_y", FALSE, FALSE, <<>>, None)
  /\ "H_y_n" \in attrs

\* C1: on a fresh instance of U units in G groups, after entropy_y(True) and
\* then entropy_y(False), city_df has exactly the G group rows and the column
\* 'H(y)', and nhood_df has exactly its U rows, its original columns with
\* their values, and the new column 'H(y|n)'.
C1_EntropyPair ==
  C1_Pair =>
    /\ "city_df" \in attrs
    /\ city_df.index = GroupIndex
    /\ city_df.columns = << <<"H(y)">> >>
    /\ nhood_df.index = Units.index
    /\ Range(nhood_df.columns) = Range(Units.columns) \cup { <<"H(y|n)">> }
    /\ \A n \in Range(Units.columns) :
         ColumnsOn(nhood_df, n, Units.index) = ColumnsOn(Units, n, Units.index)

\* ---------------------------------------------------------------------- C2
\* C2: after any sequence of calculation calls nhood_df has exactly the row
\* keys of the original units and city_df, once it exists, exactly one row per
\* group; no run of the decorator merges a group-level result into nhood_df
\* or stores or merges a unit-level result as city_df.
C2_RowsPerLevel ==
  /\ nhood_df.index = Units.index
  /\ "city_df" \in attrs => city_df.index = GroupIndex
  /\ \A i \in 1..Len(merges) :
       /\ merges[i].to = "nhood_df" => merges[i].new_df.index = Units.index
       /\ merges[i].to \in {"setattr", "city_df"} => merges[i].new_df.index = GroupIndex

\* ---------------------------------------------------------------------- C3
\* target T merged with result R into A: the names of A are those of T and R;
\* on the rows of R the columns R names hold R's values; on the rows of T the
\* columns only T names hold T's values
MergedInto(T, R, A) ==
  /\ Range(A.columns) = Range(T.columns) \cup Range(R.columns)
  /\ \A n \in Range(R.columns) : ColumnsOn(A, n, R.index) = Select(R, <<n>>).data
  /\ \A n \in Range(T.columns) \ Range(R.columns) :
       ColumnsOn(A, n, T.index) = Select(T, <<n>>).data

MergeKept(m) ==
  /\ m.to = "nhood_df" =>
       /\ MergedInto(m.before.nhood_df, m.new_df, m.after.nhood_df)
       /\ m.after.city_df = m.before.city_df
  /\ m.to = "city_df" =>
       /\ MergedInto(m.before.city_df, m.new_df, m.after.city_df)
       /\ m.after.nhood_df = m.before.nhood_df

\* C3: in every run of the decorator that merges a result into nhood_df or
\* city_df, row key by row key: the columns of the target the result names
\* hold the result's values, the result's other columns are added, the
\* target's other columns keep name and values, and the other tracked table
\* is unchanged; the tables the call leaves are those of its last merge.
C3_MergeOverwrites ==
  /\ \A i \in 1..Len(merges) : MergeKept(merges[i])
  /\ (merges # <<>> /\ ret.exc = "") =>
       /\ nhood_df = merges[Len(merges)].after.nhood_df
       /\ city_df = merges[Len(merges)].after.city_df

C3_Overlap(T, R) ==
  /\ Range(R.columns) \ Range(T.columns) # {}
  /\ Range(T.columns) \ Range(R.columns) # {}
  /\ \E n \in Range(T.columns) \cap Range(R.columns) :
       ColumnsOn(T, n, R.index) # Select(R, <<n>>).data

\* a merge into city_df that overwrites a column with other values, adds a
\* column and keeps a column
C3_Witness ==
  \E i \in 1..Len(merges) :
     /\ merges[i].to = "city_df"
     /\ C3_Overlap(merges[i].before.city_df, merges[i].new_df)

\* ---------------------------------------------------------------------- C4
\* C4: a decorated operation called twice in succession with the same
\* arguments succeeds both times, returns the same table the second time and
\* leaves the tracked tables as the first call left them.
C4_Idempotent ==
  [][(call' = call /\ call.op \in Decorated /\ ncalls' = ncalls + 1) =>
       /\ ret.exc = ""
       /\ ret'.exc = ""
       /\ ret'.df = ret.df
       /\ nhood_df' = nhood_df
       /\ city_df' = city_df]_vars

\* ---------------------------------------------------------------------- C5
\* C5: every call of an aggregation that supplies neither var_list nor
\* var_regex raises and leaves nhood_df and city_df unchanged, whatever calls
\* were made earlier.
C5_NoArguments ==
  [][(/\ call'.op \in Aggregations
      /\ ~call'.given
      /\ call'.var_regex = None
      /\ ncalls' = ncalls + 1) =>
       /\ ret'.exc # ""
       /\ nhood_df' = nhood_df
       /\ city_df' = city_df]_vars

\* ---------------------------------------------------------------------- C6
\* C6: a call of mutual_info computes the DKL(n|y) table only when none is
\* stored: with DKL_n stored it computes none and keeps the stored table;
\* with none stored it computes the table exactly once and stores it; either
\* way the table is stored afterwards, it is what the inner dkl_n hands to
\* the decorator, and the call returns the column 'MI'.
C6_DklOnlyIfAbsent ==
  [][(call'.op = "mutual_info" /\ ncalls' = ncalls + 1) =>
       /\ "DKL_n" \in attrs => (Count(events', "DKL_n") = 0 /\ DKL_n' = DKL_n)
       /\ "DKL_n" \notin attrs =>
            (Count(events', "DKL_n") = 1 /\ DKL_n' = compute_DKL_n(self))
       /\ "DKL_n" \in attrs'
       /\ merges' # <<>> /\ merges'[1].new_df = DKL_n'
       /\ ret'.exc = "" /\ ret'.df.columns = << <<"MI">> >>]_vars

\* mutual_info after a call that stored DKL_n: nothing computed anew
C6_Witness ==
  /\ call.op = "mutual_info"
  /\ ncalls = 2
  /\ ret.exc = ""
  /\ Count(events, "DKL_n") = 0
  /\ DKL_n # NoFrame

\* ---------------------------------------------------------------------- C7
\* the sums of the input rows of group g: bin b, and the total column
GroupBin(g, b) ==
  SumSeq([i \in 1..Len(self.rows) |->
            IF self.rows[i].g = g THEN self.rows[i].y[b] ELSE 0])

GroupTotal(g) ==
  SumSeq([i \in 1..Len(self.rows) |->
            IF self.rows[i].g = g THEN self.rows[i].tot ELSE 0])

\* the cell of the stored DKL_n table for group g and bin b, found by name
DklCell(g, b) ==
  Cell(DKL_n, GroupKey(g), Pos(DKL_n.columns, <<"DKL(n|y)", "_">> \o BinNames[b]))

\* the sum over the bins of weight times DKL, both of group g
WeightedDkl(g) ==
  RowSum([b \in 1..Len(BinNames) |->
            Mul(Ratio(GroupBin(g, b), GroupTotal(g)), DklCell(g, b))])

\* C7: after mutual_info, for every group g the 'MI' value in the row of g is
\* the sum over the bins b, in their order, of (g's summed count in b over
\* g's summed total) times the 'DKL(n|y)_b' value of g in DKL_n (missing
\* terms left out of the sum), whether DKL_n was stored before or computed
\* by this call.
C7_MutualInfo ==
  (call.op = "mutual_info" /\ ret.exc = "") =>
    /\ ret.df.index = GroupIndex
    /\ \A k \in 1..Len(GroupLabels) :
         Cell(ret.df, GroupKey(GroupLabels[k]), 1) = WeightedDkl(GroupLabels[k])

\* mutual_info over a stored DKL_n, two groups with different values
C7_Witness ==
  /\ call.op = "mutual_info"
  /\ ret.exc = ""
  /\ Count(events, "DKL_n") = 0
  /\ Len(ret.df.index) = 2
  /\ ret.df.data[1][1] # ret.df.data[1][2]
  /\ \E i \in 1..2 : ret.df.data[1][i].op = "sum" /\ ret.df.data[1][i].args # <<>>

\* ---------------------------------------------------------------------- C8
ZeroTotal(i) == self.rows[i].tot = 0

\* C8: for every unit whose total column is 0, entropy_y(True), dkl_y and
\* nhood_weights do not raise and give the missing value in that unit's row,
\* in every column they return.
C8_ZeroTotalMissing ==
  (call.op \in {"dkl_y", "nhood_weights"} \/ (call.op = "entropy_y" /\ call.flag)) =>
    /\ ret.exc = ""
    /\ \A i \in 1..Len(self.rows) :
         ZeroTotal(i) =>
           \A j \in 1..Len(ret.df.columns) : IsMissing(Cell(ret.df, UnitKey(i), j))

\* ---------------------------------------------------------------------- C9
JoinOps == {"p_n", "nhood_weights", "dkl_y"}

\* the column selection each operation asks _join_group_sums for
Selection(op) ==
  CASE op = "p_n" -> tot_col
    [] op = "nhood_weights" -> tot_col \o <<"|">> \o bin_regex
    [] op = "dkl_y" -> bin_regex

\* df begins with the table j: its index, and its columns in order
BeginsWith(df, j) ==
  /\ df.index = j.index
  /\ Len(df.columns) >= Len(j.columns)
  /\ SubSeq(df.columns, 1, Len(j.columns)) = j.columns
  /\ SubSeq(df.data, 1, Len(j.columns)) = j.data

\* C9 (as the code has it): every run of _join_group_sums, from dkl_y,
\* nhood_weights or a p_n that is still callable, computes the join anew for
\* the selection it is asked for and stores it as df_summed, whether or not a
\* join is stored already; of the work only the grouping is reused.  So a
\* join stored for another selection is never returned.
C9_JoinRecomputed ==
  [][(/\ call'.op \in JoinOps
      /\ ncalls' = ncalls + 1
      /\ (call'.op = "p_n" => "p_n" \notin attrs)) =>
       /\ Count(events', "join") = 1
       /\ "grouped" \in attrs => Count(events', "groupby") = 0
       /\ "df_summed" \in attrs'
       /\ BeginsWith(df_summed', join_group_sums(self, Selection(call'.op)))]_vars

\* dkl_y after p_n stored the join of the total column alone
C9_Witness ==
  /\ call.op = "dkl_y"
  /\ ret.exc = ""
  /\ "p_n" \in attrs
  /\ Count(events, "join") = 1
  /\ df_summed = join_group_sums(self, bin_regex)

\* C9 (as stated): a call needing the join an earlier call stored for the
\* same selection returns the stored df_summed without computing the join.
C9_JoinReused ==
  [][(/\ call'.op \in JoinOps
      /\ call'.op = call.op
      /\ ret.exc = ""
      /\ "df_summed" \in attrs
      /\ ncalls' = ncalls + 1) =>
       /\ Count(events', "join") = 0
       /\ df_summed' = df_summed]_vars

\* --------------------------------------------------------------------- C10
\* C10: the first result whose row count differs from nhood_df's, with no
\* city_df yet, becomes city_df whatever its size, nhood_df unchanged; the
\* call does not raise and city_df exists afterwards.
C10_FirstGroupResult ==
  [][(/\ ~shape.has_city
      /\ ncalls' = ncalls + 1
      /\ shape'.new_df # shape.nhood_df) =>
       /\ shape'.out = "setattr"
       /\ shape'.has_city
       /\ shape'.city_df = shape'.new_df
       /\ shape'.nhood_df = shape.nhood_df]_vars

\* --------------------------------------------------------------------- C11
\* the sums of group g over the input rows, bin by bin
GroupBins(g) == [b \in 1..Len(BinNames) |-> GroupBin(g, b)]

\* the share of bin b in unit i over the share of bin b in the group of unit i
WeightOf(i, b) ==
  Div(Div(Num(self.rows[i].y[b]), Num(self.rows[i].tot)),
      Div(Num(GroupBin(self.rows[i].g, b)), Num(GroupTotal(self.rows[i].g))))

\* the row an operation gives unit i when every bin column of the unit is
\* paired with the aggregate of the same bin over the unit's own group
PairedWithGroup(op, i) ==
  CASE op = "p_n" ->
         << Div(Num(self.rows[i].tot), Num(GroupTotal(self.rows[i].g))) >>
    [] op = "dkl_y" ->
         << stats_rel_entropy(self.rows[i].y, GroupBins(self.rows[i].g)) >>
    [] op = "nhood_weights" ->
         [b \in 1..Len(BinNames) |-> ReplaceInf(WeightOf(i, b))]

RowOf(df, key) == [j \in 1..Len(df.columns) |-> Cell(df, key, j)]

\* every column of the unit table that op has summed by group is in the join
\* under its own name followed by '_' + group_name
JoinedUnderGroupName(df, op) ==
  \A j \in 1..Len(Units.columns) :
    Matches(Selection(op), Units.columns[j]) =>
      Units.columns[j] \o <<"_", self.group_name>> \in Range(df.columns)

\* C11: for every configured group_name, a call of p_n (while it is still a
\* method), nhood_weights or dkl_y does not raise, the join it stores names
\* the group columns with the suffix '_' + group_name, and the row it returns
\* for each unit pairs every bin (or the total) of the unit with the
\* aggregate of the same column over the unit's own group.
C11_GroupSuffix ==
  [][(/\ call'.op \in JoinOps
      /\ ncalls' = ncalls + 1
      /\ (call'.op = "p_n" => "p_n" \notin attrs)) =>
       /\ ret'.exc = ""
       /\ JoinedUnderGroupName(df_summed', call'.op)
       /\ ret'.df.index = Units.index
       /\ \A i \in 1..Len(self.rows) :
            RowOf(ret'.df, UnitKey(i)) = PairedWithGroup(call'.op, i)]_vars
====
